---- MODULE Spec2Model ----
(***************************************************************************)
(* Shared message queue of rmw_hazcat (src/src/hazcat_message_queue.c).    *)
(*                                                                         *)
(* The queue segment is modelled at the granularity of its 16-byte cells:  *)
(* a ref_bits_t and an entry_t are both three words wide, and get_ref_bits *)
(* and get_entry are address computations over the same cell array.  Every *)
(* endpoint is a thread of control with a program counter; one action is   *)
(* one shared-memory step of a handler.                                    *)
(***************************************************************************)
EXTENDS Integers, Naturals, Sequences, FiniteSets, TLC

(***************************************************************************)
(* Bounds of the model.                                                    *)
(***************************************************************************)
MaxDepth == 3          \* depths an endpoint may ask for: 1..MaxDepth
MaxMsgs == 3           \* publishes explored in one behaviour
RingSize == 3          \* ring_size every allocator is created with
NumCudaDevices == 2    \* device numbers of the CUDA allocators

(***************************************************************************)
(* Program constants.                                                      *)
(***************************************************************************)
DOMAINS_PER_TOPIC == 32
ItemSize == 8
CPU == 0
CUDA == 1
HeaderSize == 32

Procs == {1, 2}
Pubs == {"P1", "P2"}
Subs == {"S1", "S2"}
Endpoints == Pubs \cup Subs

(***************************************************************************)
(* Allocators.  Allocator a lives in the shared segment with shmem_id a.   *)
(* Ids 1 and 2 are CPU ring allocators, the following ones CUDA ring       *)
(* allocators on devices 0, 1, ...                                         *)
(***************************************************************************)
NumCpuAllocs == 2
MaxCount == 4                     \* registrations counted on the topic
AllocIds == 1..(NumCpuAllocs + NumCudaDevices)
Cpu(k) == k                        \* the k-th CPU allocator, k in 1..NumCpuAllocs
Cuda(n) == NumCpuAllocs + n + 1    \* the allocator on CUDA device n
device_type(a) == IF a <= NumCpuAllocs THEN CPU ELSE CUDA
device_number(a) == IF a <= NumCpuAllocs THEN 0 ELSE a - NumCpuAllocs - 1

\* The 32-bit domain id of an allocator: device_type and device_number packed
\* in one word.  A device with a nonzero number has an id above 65535 whichever
\* half holds the number.
DomainId(t, n) == t * 65536 + n
domain(a) == DomainId(device_type(a), device_number(a))

Slots == 0..(RingSize - 1)
NO_SPACE == -1

\* Byte offset of a ring slot relative to the allocator header, and back.
SlotOffset(s) == HeaderSize + s * ItemSize
OffsetSlot(o) == (o - HeaderSize) \div ItemSize
IsSlotOffset(o) == \E s \in Slots : o = SlotOffset(s)

\* The slots of ring r that hold a live allocation.
Window(r) == {(r.rear_it + k) % RingSize : k \in 0..(r.count - 1)}
LiveSlots(r) == Window(r) \ r.dead

\* A ring that hands out its rear slot again when it is full.
AllocSlotWrap(r) == (r.rear_it + r.count) % RingSize

\* allocate(len): the slot handed out, or NO_SPACE.
AllocSlot(r) == IF r.count = RingSize THEN NO_SPACE ELSE (r.rear_it + r.count) % RingSize
ALLOCATE(r) ==
  IF r.count = RingSize THEN r
  ELSE [r EXCEPT !.count = r.count + 1, !.dead = r.dead \ {AllocSlot(r)}]

\* An allocate that takes as many items as the size asked for covers.
cpu_ringbuf_allocate_sized(r, size) ==
  [ring |-> IF r.count = RingSize THEN r
            ELSE [ALLOCATE(r) EXCEPT !.count = IF size > ItemSize /\ r.count + 2 <= RingSize
                                               THEN r.count + 2 ELSE r.count + 1],
   off |-> IF AllocSlot(r) = NO_SPACE THEN NO_SPACE ELSE SlotOffset(AllocSlot(r))]

\* allocate(size) of a ring allocator: the ring it leaves and the offset it
\* returns.  The stride is fixed and the size is not looked at.
cpu_ringbuf_allocate(r, size) ==
  [ring |-> ALLOCATE(r),
   off |-> IF AllocSlot(r) = NO_SPACE THEN NO_SPACE ELSE SlotOffset(AllocSlot(r))]

\* Advance rear_it over the leading run of dead slots.
RECURSIVE Reclaim(_)
Reclaim(r) ==
  IF r.count > 0 /\ r.rear_it \in r.dead
  THEN Reclaim([r EXCEPT !.rear_it = (r.rear_it + 1) % RingSize,
                         !.count = r.count - 1,
                         !.dead = r.dead \ {r.rear_it}])
  ELSE r

\* A deallocate that forgets an item that is not at the rear.
DeallocateRearOnly(r, o) ==
  IF IsSlotOffset(o) /\ OffsetSlot(o) = r.rear_it /\ r.count > 0
  THEN [r EXCEPT !.rear_it = (r.rear_it + 1) % RingSize, !.count = r.count - 1]
  ELSE r

\* A deallocate that moves the rear behind the slot it is given, whatever
\* stands before that slot.
DeallocateThrough(r, o) ==
  LET k == (OffsetSlot(o) + RingSize - r.rear_it) % RingSize IN
  IF IsSlotOffset(o) /\ k < r.count
  THEN [r EXCEPT !.rear_it = (OffsetSlot(o) + 1) % RingSize, !.count = r.count - k - 1]
  ELSE r

\* deallocate(offset): mark the slot dead and reclaim from the rear.
DEALLOCATE(r, o) ==
  IF IsSlotOffset(o) THEN Reclaim([r EXCEPT !.dead = r.dead \cup {OffsetSlot(o)}])
  ELSE r

EmptyRing == [count |-> 0, rear_it |-> 0, dead |-> {}, data |-> [s \in Slots |-> 0]]

(***************************************************************************)
(* 32-bit words are kept as their two's complement value, so that an       *)
(* unsigned word with bit 31 set is a negative number here.                *)
(***************************************************************************)
Low31(x) == IF x < 0 THEN (x + 2147483647) + 1 ELSE x
BitSet(x, d) == IF d = 31 THEN x < 0 ELSE (Low31(x) \div (2 ^ d)) % 2 = 1
BitOr(x, d) == IF BitSet(x, d) THEN x ELSE IF d = 31 THEN (x - 2147483647) - 1 ELSE x + 2 ^ d
U32Dec(x) == IF x = (0 - 2147483647) - 1 THEN 2147483647 ELSE x - 1
U32Positive(x) == x # 0
AndMask(x, m) == Low31(x) % (m + 1)   \* x & m for a mask m = 2^k - 1

(***************************************************************************)
(* State.                                                                  *)
(***************************************************************************)
VARIABLES
  pc,           \* where each endpoint's thread stands in its current call
  data,         \* pub_sub_data_t of each endpoint
  loc,          \* locals of the call in flight
  ret,          \* what the last completed call returned
  ht,           \* per process: the shmem ids in the allocator registry
  mq_list,      \* per process: its mq_node_t for the topic
  flk,          \* per process: the fcntl lock it holds on the queue file
  file,         \* the queue's shared-memory file
  hdr,          \* message_queue_t header of the queue segment
  mem,          \* the cells that follow the header
  alloc,        \* the ring allocators
  nmsgs,        \* number of messages published so far
  msg,          \* history: allocator and offset each message was published with
  seen,         \* history: messages published when a subscriber registered, first took
  row,          \* history: per row, which publish wrote what, who took it
  copies,       \* history: cross-domain copies made, per message and column
  frees,        \* history: deallocate calls that hit no live allocation
  got,          \* history: payloads each subscriber received, in order
  life,         \* history: "new", "reg" or "torn" for each endpoint
  cfg           \* the scenario explored: fixed by the initial state

vars == <<pc, data, loc, ret, ht, mq_list, flk, file, hdr, mem, alloc,
          nmsgs, msg, seen, row, copies, frees, got, life, cfg>>

queue == <<file, hdr, mem>>
hist == <<nmsgs, msg, seen, row, copies, frees, got>>

MaxLen == MaxDepth
MemCells == 8 * MaxLen + 2
Cells == 0..(MemCells - 1)
Rows == 0..MaxLen

ZeroCell == [w0 |-> 0, w1 |-> 0, w2 |-> 0]
ZeroHdr == [index |-> 0, len |-> 0, num_domains |-> 0,
            domains |-> [c \in 0..(DOMAINS_PER_TOPIC - 1) |-> 0],
            pub_count |-> 0, sub_count |-> 0]
NoData == [alloc |-> 0, mq |-> FALSE, next_index |-> 0, array_num |-> 0, depth |-> 0]
NoLoc == [i |-> 0, v |-> 0, val |-> 0, found |-> FALSE, m |-> 0, here |-> 0, src |-> 0,
          freed |-> <<>>, live |-> FALSE, path |-> "-", prev |-> {}, bad |-> 0,
          st_size |-> 0]
NoRet == [kind |-> "none"]
NoRow == [m |-> 0, e |-> 0, a |-> 0, n |-> 0, owed |-> {}, taken |-> {}, cp |-> {}]
NoMsg == [a |-> 0, o |-> 0]
NoSeen == [reg |-> -1, take |-> -1]

\* get_ref_bits and get_entry as cell numbers behind the header.
get_ref_bits(i) == i
\* An entry array laid out row by row instead of column by column.
get_entry_by_row(dom, i) == hdr.len + i * hdr.num_domains + dom
get_entry(dom, i) == hdr.len + dom * hdr.len + i

\* A cell read through the mapping.  Cells behind the modelled ones are
\* untouched bytes of the mapped page.
InMap(k) == k >= 0 /\ k < MemCells
ReadCell(k) == IF InMap(k) THEN mem[k] ELSE ZeroCell

InitWith(c) ==
  /\ cfg = c
  /\ life = [e \in Endpoints |-> "new"]
  /\ pc = [e \in Endpoints |-> "idle"]
  /\ data = [e \in Endpoints |-> NoData]
  /\ loc = [e \in Endpoints |-> NoLoc]
  /\ ret = [e \in Endpoints |-> NoRet]
  /\ ht = [p \in Procs |-> {}]
  /\ mq_list = [p \in Procs |-> "none"]
  /\ flk = [p \in Procs |-> "U"]
  /\ file = [exists |-> FALSE, size |-> 0, unlinked |-> FALSE]
  /\ hdr = ZeroHdr
  /\ mem = [k \in Cells |-> ZeroCell]
  /\ alloc = [a \in AllocIds |-> EmptyRing]
  /\ nmsgs = 0
  /\ msg = [m \in 1..MaxMsgs |-> NoMsg]
  /\ seen = [s \in Subs |-> NoSeen]
  /\ row = [i \in Rows |-> NoRow]
  /\ copies = {}
  /\ frees = 0
  /\ got = [s \in Subs |-> <<>>]

(***************************************************************************)
(* Threads, processes and the advisory lock on the queue file.             *)
(***************************************************************************)
ProcOf(e) == cfg.proc[e]

\* A thread in a call goes on as long as its process is alive.
Idle(e) == pc[e] \in {"idle", "crashed"}
MayStep(e) == pc[e] \notin {"idle", "crashed", "hung"}

\* The calls of the data plane: publish (with the borrow before it) and take.
InDataPlane(e) == pc[e] \in {"p_lock", "p_fetch", "p_cas", "p_row", "p_entry", "p_avail",
                             "p_count", "p_unlock", "t_sel", "t_avail", "t_share", "t_copy",
                             "t_read", "t_dec", "t_next", "hung"}

\* A thread may enter a call when no other call is in flight; the endpoints of
\* cfg.conc may also enter a publish or a take while others of them are in one,
\* and those of cfg.ctl a call while others of them are in one, when one of the
\* two calls is a register or an unregister.
MayStart(e, dataplane) ==
  /\ pc[e] = "idle"
  /\ \A x \in Endpoints \ {e} :
       \/ Idle(x)
       \/ dataplane /\ {e, x} \subseteq cfg.conc /\ InDataPlane(x)
       \/ {e, x} \subseteq cfg.ctl /\ (~dataplane \/ ~InDataPlane(x))

\* fcntl(F_SETLKW): locks are owned by the process; a write lock conflicts with
\* every lock of another process, a read lock with another process's write lock.
CanLock(p, type) ==
  IF type = "W" THEN \A q \in Procs \ {p} : flk[q] = "U"
  ELSE \A q \in Procs \ {p} : flk[q] # "W"

\* The process of e dies (SIGSEGV, SIGBUS or abort): all its threads stop and
\* the kernel drops its file lock.
Crash(e) ==
  /\ pc' = [x \in Endpoints |-> IF ProcOf(x) = ProcOf(e) THEN "crashed" ELSE pc[x]]
  /\ flk' = [flk EXCEPT ![ProcOf(e)] = "U"]

\* hashtable_get: the allocator mapped for a shmem id, attached on first use;
\* 0 (NULL) when the id names no allocator segment.
hashtable_get(id) == IF id \in AllocIds THEN id ELSE 0

(***************************************************************************)
(* hazcat_register_publisher / hazcat_register_subscription                *)
(***************************************************************************)
\* The header a process writes into a queue file it finds empty.
FreshHdr(dom, depth) ==
  [index |-> 0, len |-> depth,
   num_domains |-> IF dom # CPU THEN 2 ELSE 1,
   domains |-> [c \in 0..(DOMAINS_PER_TOPIC - 1) |-> IF c = 1 /\ dom # CPU THEN dom ELSE 0],
   pub_count |-> 0, sub_count |-> 0]

\* The loop over domains[0 .. DOMAINS_PER_TOPIC): the first column holding dom,
\* DOMAINS_PER_TOPIC when there is none.
FindDomain(h, dom) ==
  IF \E c \in 0..(DOMAINS_PER_TOPIC - 1) : h.domains[c] = dom
  THEN CHOOSE c \in 0..(DOMAINS_PER_TOPIC - 1) :
         /\ h.domains[c] = dom
         /\ \A b \in 0..(c - 1) : h.domains[b] # dom
  ELSE DOMAINS_PER_TOPIC

\* A registration that counts a new column without noting its domain.
MergeDomainUnnoted(h, dom) ==
  IF \E c \in 0..(DOMAINS_PER_TOPIC - 1) : h.domains[c] = dom THEN h
  ELSE [h EXCEPT !.num_domains = h.num_domains + 1]

\* The header after the domain and depth of a registering endpoint are merged in.
MergeDomain(h, dom) ==
  IF FindDomain(h, dom) < DOMAINS_PER_TOPIC THEN h
  ELSE [h EXCEPT !.domains[h.num_domains] = dom, !.num_domains = h.num_domains + 1]
MergeDepth(h, depth) == IF depth > h.len THEN [h EXCEPT !.len = depth] ELSE h

\* Size, in cells, register asks ftruncate for: depth ref_bits and depth entries.
ResizeCells(depth) == depth + depth

\* ftruncate: a file cut short loses the cells behind its new end; they read
\* zero through every mapping.
Truncated(m, old, new) ==
  IF new < old THEN [k \in Cells |-> IF k >= new THEN ZeroCell ELSE m[k]] ELSE m

\* hashtable_insert, then the search of mq_list and shm_open(O_CREAT).  A node of
\* mq_list outlives the queue it names (the removal at lines 509-514 is commented
\* out), so a process that has had the topic open finds the node again and
\* opens nothing.
hazcat_register_open(e) ==
  /\ MayStart(e, FALSE)
  /\ \/ life[e] = "new"
     \/ cfg.misuse /\ life[e] = "reg" /\ hdr.pub_count + hdr.sub_count < MaxCount
  /\ ~file.unlinked \/ mq_list[ProcOf(e)] # "none"
  /\ cfg.alloc[e] \in AllocIds
  /\ data' = [data EXCEPT ![e].alloc = cfg.alloc[e], ![e].depth = cfg.depth[e]]
  /\ ht' = [ht EXCEPT ![ProcOf(e)] = @ \cup {cfg.alloc[e]}]
  /\ loc' = [loc EXCEPT ![e] = [NoLoc EXCEPT !.found = mq_list[ProcOf(e)] # "none"]]
  /\ file' = IF mq_list[ProcOf(e)] # "none" THEN file ELSE [file EXCEPT !.exists = TRUE]
  /\ pc' = [pc EXCEPT ![e] = "r_lock"]
  /\ UNCHANGED <<ret, mq_list, flk, hdr, mem, alloc, hist, life, cfg>>

\* A thread that did not find the queue in mq_list: the write lock on the
\* descriptor it opened, then fstat.
hazcat_register_fstat(e) ==
  LET p == ProcOf(e) IN
  /\ MayStep(e)
  /\ pc[e] = "r_lock"
  /\ ~loc[e].found
  /\ CanLock(p, "W")
  /\ flk' = [flk EXCEPT ![p] = "W"]
  /\ loc' = [loc EXCEPT ![e].st_size = file.size]
  /\ pc' = [pc EXCEPT ![e] = "r_map"]
  /\ UNCHANGED <<data, ret, ht, mq_list, file, hdr, mem, alloc, hist, life, cfg>>

\* The rest of hazcat_register_pub_or_sub: behind fstat for a thread that opened
\* the file, from the write lock for one that found the queue in mq_list.
hazcat_register_pub_or_sub(e) ==
  LET p == ProcOf(e)
      dom == domain(data[e].alloc)
      depth == data[e].depth
      fresh == ~loc[e].found /\ loc[e].st_size = 0
      size0 == IF fresh THEN ResizeCells(depth) ELSE file.size
      h0 == IF fresh THEN FreshHdr(dom, depth) ELSE hdr
      col == FindDomain(h0, dom)
      full == col = DOMAINS_PER_TOPIC /\ h0.num_domains = DOMAINS_PER_TOPIC
      h1 == MergeDepth(MergeDomain(h0, dom), depth)
      needs_resize == col = DOMAINS_PER_TOPIC \/ depth > h0.len
      size1 == IF needs_resize THEN ResizeCells(depth) ELSE size0
  IN
  /\ MayStep(e)
  /\ \/ pc[e] = "r_map"
     \/ pc[e] = "r_lock" /\ loc[e].found /\ CanLock(p, "W")
  /\ IF loc[e].found /\ mq_list[p] = "unmapped"
     THEN \* mq->domains read through the mapping an unregister has removed
          /\ Crash(e)
          /\ UNCHANGED <<mq_list, hdr, file, mem, data, ret>>
     ELSE IF full
     THEN /\ flk' = IF pc[e] = "r_map" THEN flk ELSE [flk EXCEPT ![p] = "W"]
          /\ mq_list' = [mq_list EXCEPT ![p] = "mapped"]
          /\ hdr' = h0
          /\ file' = [file EXCEPT !.size = size0]
          /\ mem' = Truncated(mem, file.size, size0)
          /\ data' = data
          /\ ret' = [ret EXCEPT ![e] = [kind |-> "error", why |-> "TooManyDomains"]]
          /\ pc' = [pc EXCEPT ![e] = "idle"]
     ELSE /\ flk' = IF pc[e] = "r_map" THEN flk ELSE [flk EXCEPT ![p] = "W"]
          /\ mq_list' = [mq_list EXCEPT ![p] = "mapped"]
          /\ hdr' = h1
          /\ file' = [file EXCEPT !.size = size1]
          /\ mem' = Truncated(Truncated(mem, file.size, size0), size0, size1)
          /\ data' = [data EXCEPT ![e].array_num =
                        IF col < DOMAINS_PER_TOPIC THEN col ELSE h0.num_domains,
                                  ![e].mq = TRUE]
          /\ ret' = ret
          /\ pc' = [pc EXCEPT ![e] = "r_count"]
  /\ UNCHANGED <<loc, ht, alloc, hist, life, cfg>>

UINT16_MAX == 65535

\* A registration that starts a subscriber at row 0.
FirstIndexZero(h) == 0

\* The row a new subscriber starts at: the write index, so that it ignores the
\* messages in the queue.
FirstIndex(h) == h.index

\* The tail of hazcat_register_publisher / hazcat_register_subscription: the
\* count (and a subscriber's next_index), then the unlock.
hazcat_register_count(e) ==
  LET p == ProcOf(e)
      cnt == IF e \in Pubs THEN hdr.pub_count ELSE hdr.sub_count
  IN
  /\ MayStep(e)
  /\ pc[e] = "r_count"
  /\ data' = IF e \in Subs THEN [data EXCEPT ![e].next_index = FirstIndex(hdr)] ELSE data
  /\ IF cnt < UINT16_MAX
     THEN /\ hdr' = IF e \in Pubs THEN [hdr EXCEPT !.pub_count = @ + 1]
                                 ELSE [hdr EXCEPT !.sub_count = @ + 1]
          /\ flk' = [flk EXCEPT ![p] = "U"]
          /\ ret' = [ret EXCEPT ![e] = [kind |-> "ok"]]
          /\ life' = [life EXCEPT ![e] = "reg"]
     ELSE /\ hdr' = hdr
          /\ flk' = flk
          /\ ret' = [ret EXCEPT ![e] = [kind |-> "error", why |-> "CountOverflow"]]
          /\ life' = life
  /\ loc' = [loc EXCEPT ![e] = NoLoc]
  /\ pc' = [pc EXCEPT ![e] = "idle"]
  /\ seen' = IF e \in Subs THEN [seen EXCEPT ![e].reg = nmsgs] ELSE seen
  /\ UNCHANGED <<ht, mq_list, file, mem, alloc, nmsgs, msg, row, copies, frees, got, cfg>>

\* The devices of the endpoints of further processes: as many as the columns a
\* queue has for devices, less one.
OutsideDevices == NumCudaDevices..(NumCudaDevices + DOMAINS_PER_TOPIC - 3)

\* hazcat_register_publisher, from the call to the return, by a publisher of depth
\* 1 on device n in a process of its own, while no other call is in flight.  The
\* devices come in ascending order, and only while a column is free.
hazcat_register_outside(n) ==
  LET dom == DomainId(CUDA, n)
      depth == 1
      fresh == file.size = 0
      size0 == IF fresh THEN ResizeCells(depth) ELSE file.size
      h0 == IF fresh THEN FreshHdr(dom, depth) ELSE hdr
      col == FindDomain(h0, dom)
      h1 == MergeDepth(MergeDomain(h0, dom), depth)
      needs_resize == col = DOMAINS_PER_TOPIC \/ depth > h0.len
      size1 == IF needs_resize THEN ResizeCells(depth) ELSE size0
  IN
  /\ \A e \in Endpoints : Idle(e)
  /\ \A q \in Procs : flk[q] = "U"
  /\ ~file.unlinked
  /\ FindDomain(hdr, dom) = DOMAINS_PER_TOPIC
  /\ \A k \in OutsideDevices : k < n => FindDomain(hdr, DomainId(CUDA, k)) < DOMAINS_PER_TOPIC
  /\ h1.num_domains <= DOMAINS_PER_TOPIC /\ (fresh \/ hdr.num_domains < DOMAINS_PER_TOPIC)
  /\ h1.pub_count < UINT16_MAX
  /\ hdr' = [h1 EXCEPT !.pub_count = @ + 1]
  /\ file' = [file EXCEPT !.exists = TRUE, !.size = size1]
  /\ mem' = Truncated(mem, size0, size1)
  /\ UNCHANGED <<pc, data, loc, ret, ht, mq_list, flk, alloc, hist, life, cfg>>

(***************************************************************************)
(* Reading and writing the queue's cells.                                  *)
(***************************************************************************)
PageCells == 246    \* cells of the one page a queue of this size is mapped in

WriteCell(m, k, c) == IF InMap(k) THEN [m EXCEPT ![k] = c] ELSE m

interest_count(i) == ReadCell(get_ref_bits(i)).w0
availability(i) == ReadCell(get_ref_bits(i)).w1
Entry(col, i) == ReadCell(get_entry(col, i))

\* The payload behind (allocator, offset); 0 where the offset is no slot.
Payload(al, a, o) == IF a \in AllocIds /\ IsSlotOffset(o) THEN al[a].data[OffsetSlot(o)] ELSE 0

\* (allocator, offset) names a live allocation.
Live(al, a, o) == a \in AllocIds /\ IsSlotOffset(o) /\ OffsetSlot(o) \in LiveSlots(al[a])

\* The columns d < n whose availability bit is set in row i, in ascending order,
\* as the <<shmem id, offset>> pairs of their entries.
RECURSIVE RowCopies(_, _, _)
RowCopies(i, d, n) ==
  IF d >= n THEN <<>>
  ELSE IF BitSet(availability(i), d)
       THEN <<[id |-> Entry(d, i).w0, off |-> Entry(d, i).w1]>> \o RowCopies(i, d + 1, n)
       ELSE RowCopies(i, d + 1, n)

\* DEALLOCATE applied to a list of entries, each through hashtable_get.
RECURSIVE FreeAll(_, _)
FreeAll(al, es) ==
  IF es = <<>> THEN al
  ELSE FreeAll([al EXCEPT ![es[1].id] = DEALLOCATE(@, es[1].off)], Tail(es))

\* How many entries of the list were not live allocations when their turn came.
RECURSIVE BadFrees(_, _)
BadFrees(al, es) ==
  IF es = <<>> THEN 0
  ELSE (IF Live(al, es[1].id, es[1].off) THEN 0 ELSE 1)
       + BadFrees([al EXCEPT ![es[1].id] = DEALLOCATE(@, es[1].off)], Tail(es))

Resolvable(es) == \A k \in 1..Len(es) : hashtable_get(es[k].id) # 0

(***************************************************************************)
(* hazcat_publish                                                          *)
(***************************************************************************)
\* The caller takes a message from the publisher's allocator and fills it in.
borrow_message(e) ==
  LET a == data[e].alloc IN
  /\ MayStart(e, TRUE)
  /\ e \in Pubs
  /\ life[e] = "reg" \/ (cfg.misuse /\ life[e] = "torn")
  /\ nmsgs < MaxMsgs
  /\ AllocSlot(alloc[a]) # NO_SPACE
  /\ alloc' = [alloc EXCEPT ![a] = [ALLOCATE(@) EXCEPT !.data[AllocSlot(alloc[a])] = nmsgs + 1]]
  /\ nmsgs' = nmsgs + 1
  /\ msg' = [msg EXCEPT ![nmsgs + 1] = [a |-> a, o |-> SlotOffset(AllocSlot(alloc[a]))]]
  /\ loc' = [loc EXCEPT ![e] = [NoLoc EXCEPT !.m = nmsgs + 1,
                                             !.here = SlotOffset(AllocSlot(alloc[a]))]]
  /\ pc' = [pc EXCEPT ![e] = "p_lock"]
  /\ UNCHANGED <<data, ret, ht, mq_list, flk, queue, seen, row, copies, frees, got, life, cfg>>

\* fcntl(data->mq->fd, F_SETLKW, F_RDLCK); data->mq is NULL after an unregister.
hazcat_publish_rdlock(e) ==
  /\ MayStep(e)
  /\ pc[e] = "p_lock"
  /\ IF data[e].mq
     THEN /\ CanLock(ProcOf(e), "R")
          /\ flk' = [flk EXCEPT ![ProcOf(e)] = "R"]
          /\ pc' = [pc EXCEPT ![e] = "p_fetch"]
     ELSE Crash(e)
  /\ UNCHANGED <<data, loc, ret, ht, mq_list, queue, alloc, hist, life, cfg>>

\* i = atomic_fetch_add(&mq->index, 1); v = i + 1
hazcat_publish_fetch_add(e) ==
  /\ MayStep(e)
  /\ pc[e] = "p_fetch"
  /\ loc' = [loc EXCEPT ![e].i = hdr.index, ![e].v = hdr.index + 1]
  /\ hdr' = [hdr EXCEPT !.index = @ + 1]
  /\ pc' = [pc EXCEPT ![e] = "p_cas"]
  /\ UNCHANGED <<data, ret, ht, mq_list, flk, file, mem, alloc, hist, life, cfg>>

\* One round of while (!CAS(&mq->index, &v, v % mq->len)).
hazcat_publish_cas(e) ==
  /\ MayStep(e)
  /\ pc[e] = "p_cas"
  /\ IF hdr.index = loc[e].v
     THEN /\ hdr' = [hdr EXCEPT !.index = loc[e].v % hdr.len]
          /\ loc' = loc
          /\ pc' = [pc EXCEPT ![e] = "p_row"]
     ELSE /\ hdr' = hdr
          /\ loc' = [loc EXCEPT ![e].v = hdr.index]
          /\ pc' = pc
  /\ UNCHANGED <<data, ret, ht, mq_list, flk, file, mem, alloc, hist, life, cfg>>

\* lock_domain(lock, bit_mask): the load and the compare-and-swap loop store
\* bit_mask & lock into the lock word, whatever it held.
lock_domain(m, k, bit_mask) ==
  WriteCell(m, k, [ReadCell(k) EXCEPT !.w2 = AndMask(ReadCell(k).w2, bit_mask)])

\* The entries a publish deallocates before it writes row i: those of the set
\* availability bits when the row is still live, none otherwise.
ReleaseList(i) ==
  IF U32Positive(interest_count(i)) THEN RowCopies(i, 0, DOMAINS_PER_TOPIC) ELSE <<>>

\* lock_domain(&ref_bits->lock, 0xFF), then the release of the copies of a row
\* that is still live.
hazcat_publish_release(e) ==
  LET i == loc[e].i
      live == U32Positive(interest_count(i))
      es == ReleaseList(i)
  IN
  /\ MayStep(e)
  /\ pc[e] = "p_row"
  /\ IF Resolvable(es)
     THEN /\ mem' = lock_domain(mem, get_ref_bits(i), 255)
          /\ alloc' = FreeAll(alloc, es)
          /\ frees' = frees + BadFrees(alloc, es)
          /\ loc' = [loc EXCEPT ![e].freed = es, ![e].live = live,
                                ![e].val = interest_count(i),
                                ![e].prev = row[i].cp, ![e].bad = BadFrees(alloc, es)]
          /\ pc' = [pc EXCEPT ![e] = "p_entry"]
          /\ flk' = flk
     ELSE /\ Crash(e)
          /\ UNCHANGED <<mem, alloc, frees, loc>>
  /\ UNCHANGED <<data, ret, ht, mq_list, file, hdr, nmsgs, msg, seen, row, copies, got, life, cfg>>

\* entry->alloc_shmem_id, entry->offset, entry->len
hazcat_publish_entry(e) ==
  LET i == loc[e].i IN
  /\ MayStep(e)
  /\ pc[e] = "p_entry"
  /\ mem' = WriteCell(mem, get_entry(data[e].array_num, i),
                      [w0 |-> data[e].alloc, w1 |-> loc[e].here, w2 |-> ItemSize])
  /\ row' = [row EXCEPT ![i].e = loc[e].m,
                         ![i].cp = {[id |-> data[e].alloc, off |-> loc[e].here]}]
  /\ pc' = [pc EXCEPT ![e] = "p_avail"]
  /\ UNCHANGED <<data, loc, ret, ht, mq_list, flk, file, hdr, alloc,
                 nmsgs, msg, seen, copies, frees, got, life, cfg>>

\* A publish that adds its bit to the availability the row had.
hazcat_publish_availability_or(e) ==
  LET i == loc[e].i IN
  /\ MayStep(e)
  /\ pc[e] = "p_avail"
  /\ mem' = WriteCell(mem, get_ref_bits(i),
                      [ReadCell(get_ref_bits(i)) EXCEPT
                         !.w1 = BitOr(availability(i), data[e].array_num)])
  /\ row' = [row EXCEPT ![i].a = loc[e].m]
  /\ pc' = [pc EXCEPT ![e] = "p_count"]
  /\ UNCHANGED <<data, loc, ret, ht, mq_list, flk, file, hdr, alloc,
                 nmsgs, msg, seen, copies, frees, got, life, cfg>>

\* ref_bits->availability = 1 << domain_col
hazcat_publish_availability(e) ==
  LET i == loc[e].i IN
  /\ MayStep(e)
  /\ pc[e] = "p_avail"
  /\ mem' = WriteCell(mem, get_ref_bits(i),
                      [ReadCell(get_ref_bits(i)) EXCEPT !.w1 = BitOr(0, data[e].array_num)])
  /\ row' = [row EXCEPT ![i].a = loc[e].m]
  /\ pc' = [pc EXCEPT ![e] = "p_count"]
  /\ UNCHANGED <<data, loc, ret, ht, mq_list, flk, file, hdr, alloc,
                 nmsgs, msg, seen, copies, frees, got, life, cfg>>

\* ref_bits->interest_count = mq->sub_count
hazcat_publish_interest(e) ==
  LET i == loc[e].i IN
  /\ MayStep(e)
  /\ pc[e] = "p_count"
  /\ mem' = WriteCell(mem, get_ref_bits(i),
                      [ReadCell(get_ref_bits(i)) EXCEPT !.w0 = hdr.sub_count])
  /\ row' = [row EXCEPT ![i] = [m |-> loc[e].m, e |-> @.e, a |-> @.a, n |-> loc[e].m,
                                owed |-> {s \in Subs : life[s] = "reg"}, taken |-> {},
                                cp |-> @.cp]]
  /\ pc' = [pc EXCEPT ![e] = "p_unlock"]
  /\ UNCHANGED <<data, loc, ret, ht, mq_list, flk, file, hdr, alloc,
                 nmsgs, msg, seen, copies, frees, got, life, cfg>>

\* ref_bits->lock = 0, then fcntl(F_SETLK, F_UNLCK)
hazcat_publish_unlock(e) ==
  LET i == loc[e].i IN
  /\ MayStep(e)
  /\ pc[e] = "p_unlock"
  /\ mem' = WriteCell(mem, get_ref_bits(i), [ReadCell(get_ref_bits(i)) EXCEPT !.w2 = 0])
  /\ flk' = [flk EXCEPT ![ProcOf(e)] = "U"]
  /\ ret' = [ret EXCEPT ![e] = [kind |-> "pub", i |-> i, m |-> loc[e].m,
                                freed |-> loc[e].freed, live |-> loc[e].live,
                                count |-> loc[e].val,
                                prev |-> loc[e].prev, bad |-> loc[e].bad]]
  /\ loc' = [loc EXCEPT ![e] = NoLoc]
  /\ pc' = [pc EXCEPT ![e] = "idle"]
  /\ UNCHANGED <<data, ht, mq_list, file, hdr, alloc, hist, life, cfg>>

(***************************************************************************)
(* hazcat_take                                                             *)
(***************************************************************************)
\* fcntl(data->mq->fd, F_SETLKW, F_RDLCK); data->mq is NULL after an unregister.
hazcat_take_rdlock(e) ==
  /\ MayStart(e, TRUE)
  /\ e \in Subs
  /\ life[e] = "reg" \/ (cfg.misuse /\ life[e] = "torn")
  /\ IF data[e].mq
     THEN /\ CanLock(ProcOf(e), "R")
          /\ flk' = [flk EXCEPT ![ProcOf(e)] = "R"]
          /\ pc' = [pc EXCEPT ![e] = "t_sel"]
          /\ seen' = IF seen[e].take < 0 THEN [seen EXCEPT ![e].take = nmsgs] ELSE seen
     ELSE /\ Crash(e)
          /\ seen' = seen
  /\ loc' = [loc EXCEPT ![e] = NoLoc]
  /\ UNCHANGED <<data, ret, ht, mq_list, queue, alloc, nmsgs, msg, row, copies, frees, got, life, cfg>>

\* A take that never skips ahead.
NextRowNoSkip(index, len, next_index, history) == next_index

\* The row a take looks at: next_index, or the oldest of the last `history` rows
\* when the subscriber has fallen further behind.
NextRow(index, len, next_index, history) ==
  IF (index + len - next_index) % len > history
  THEN (index + len - history) % len
  ELSE next_index

\* The choice of the row; "no message" returns at once.
hazcat_take_select(e) ==
  LET i == NextRow(hdr.index, hdr.len, data[e].next_index, data[e].depth) IN
  /\ MayStep(e)
  /\ pc[e] = "t_sel"
  /\ IF i = hdr.index
     THEN /\ ret' = [ret EXCEPT ![e] = [kind |-> "empty"]]
          /\ pc' = [pc EXCEPT ![e] = "idle"]
          /\ loc' = loc
     ELSE /\ ret' = ret
          /\ pc' = [pc EXCEPT ![e] = "t_avail"]
          /\ loc' = [loc EXCEPT ![e].i = i]
  /\ UNCHANGED <<data, ht, mq_list, flk, queue, alloc, hist, life, cfg>>

\* if ((1 << array_num) & ref_bits->availability)
hazcat_take_check(e) ==
  /\ MayStep(e)
  /\ pc[e] = "t_avail"
  /\ pc' = [pc EXCEPT ![e] =
              IF BitSet(availability(loc[e].i), data[e].array_num) THEN "t_share" ELSE "t_copy"]
  /\ UNCHANGED <<data, loc, ret, ht, mq_list, flk, queue, alloc, hist, life, cfg>>

\* What a read far outside the mapping can yield when it does not fault.
StrayEntries ==
  {[w0 |-> a, w1 |-> o, w2 |-> ItemSize] : a \in {0} \cup AllocIds, o \in {SlotOffset(0)}}

\* The message is in the preferred domain: the entry is read at
\* get_entry(mq, alloc->domain, i), the allocator looked up and the message shared.
hazcat_take_share(e) ==
  LET i == loc[e].i
      k == get_entry(domain(data[e].alloc), i)
  IN
  /\ MayStep(e)
  /\ pc[e] = "t_share"
  /\ \E entry \in IF k < PageCells THEN {ReadCell(k)} ELSE StrayEntries \cup {ZeroCell} :
       IF k >= PageCells /\ entry = ZeroCell
       THEN \* the read faults
            /\ Crash(e)
            /\ loc' = loc
       ELSE IF hashtable_get(entry.w0) = 0
       THEN \* SHARE through a null allocator
            /\ Crash(e)
            /\ loc' = loc
       ELSE /\ loc' = [loc EXCEPT ![e].src = hashtable_get(entry.w0), ![e].here = entry.w1,
                                  ![e].path = "share", ![e].m = row[i].m]
            /\ pc' = [pc EXCEPT ![e] = "t_read"]
            /\ flk' = flk
  /\ UNCHANGED <<data, ret, ht, mq_list, queue, alloc, hist, life, cfg>>

\* The lowest column whose availability bit is set; DOMAINS_PER_TOPIC if none.
FirstAvailable(av) ==
  IF \E d \in 0..(DOMAINS_PER_TOPIC - 1) : BitSet(av, d)
  THEN CHOOSE d \in 0..(DOMAINS_PER_TOPIC - 1) :
         BitSet(av, d) /\ \A b \in 0..(d - 1) : ~BitSet(av, b)
  ELSE DOMAINS_PER_TOPIC

\* No copy in the preferred domain: find the first domain with a copy, allocate
\* in the subscriber's allocator, copy, store the new entry and set the bit.
hazcat_take_copy(e) ==
  LET i == loc[e].i
      a == data[e].alloc
      d == FirstAvailable(availability(i))
      entry == Entry(d, i)
      src == hashtable_get(entry.w0)
      slot == AllocSlot(alloc[a])
      here == SlotOffset(slot)
      al1 == [alloc EXCEPT ![a] = ALLOCATE(@)]
      al2 == [al1 EXCEPT ![a].data[slot] = Payload(alloc, src, entry.w1)]
      m1 == WriteCell(mem, get_entry(data[e].array_num, i),
                      [w0 |-> a, w1 |-> here, w2 |-> entry.w2])
      rb == IF InMap(get_ref_bits(i)) THEN m1[get_ref_bits(i)] ELSE ZeroCell
      m2 == WriteCell(m1, get_ref_bits(i),
                      [rb EXCEPT !.w1 = BitOr(rb.w1, data[e].array_num)])
  IN
  /\ MayStep(e)
  /\ pc[e] = "t_copy"
  /\ d < DOMAINS_PER_TOPIC
  /\ IF slot = NO_SPACE
     THEN \* assert(here > alloc) fails
          /\ Crash(e)
          /\ UNCHANGED <<mem, alloc, loc, copies, row>>
     ELSE IF src = 0
     THEN \* src_alloc->domain through a null allocator, after the allocation
          /\ Crash(e)
          /\ alloc' = al1
          /\ UNCHANGED <<mem, loc, copies, row>>
     ELSE /\ alloc' = al2
          /\ mem' = m2
          /\ loc' = [loc EXCEPT ![e].src = a, ![e].here = here, ![e].path = "copy",
                                ![e].m = row[i].m]
          /\ copies' = copies \cup
               {<<row[i].m, data[e].array_num,
                  Cardinality({c \in copies : c[1] = row[i].m /\ c[2] = data[e].array_num}) + 1>>}
          /\ row' = [row EXCEPT ![i].cp = @ \cup {[id |-> a, off |-> here]}]
          /\ pc' = [pc EXCEPT ![e] = "t_read"]
          /\ flk' = flk
  /\ UNCHANGED <<data, ret, ht, mq_list, file, hdr, nmsgs, msg, seen, frees, got, life, cfg>>

\* while ((1 << d) & ~ref_bits->availability) d++ with no bit set in the word
\* shifts by 32 and more: the loop does not end, or the process faults.
hazcat_take_no_copy(e) ==
  /\ MayStep(e)
  /\ pc[e] = "t_copy"
  /\ FirstAvailable(availability(loc[e].i)) = DOMAINS_PER_TOPIC
  /\ \/ /\ pc' = [pc EXCEPT ![e] = "hung"]
        /\ flk' = flk
     \/ Crash(e)
  /\ UNCHANGED <<data, loc, ret, ht, mq_list, queue, alloc, hist, life, cfg>>

\* The read half of --(ref_bits->interest_count).
hazcat_take_read_interest(e) ==
  /\ MayStep(e)
  /\ pc[e] = "t_read"
  /\ loc' = [loc EXCEPT ![e].val = interest_count(loc[e].i)]
  /\ pc' = [pc EXCEPT ![e] = "t_dec"]
  /\ UNCHANGED <<data, ret, ht, mq_list, flk, queue, alloc, hist, life, cfg>>

\* A last subscriber that releases the entry of the first column only.
hazcat_take_decrement_first(e) ==
  LET i == loc[e].i
      n == U32Dec(loc[e].val)
      m1 == WriteCell(mem, get_ref_bits(i), [ReadCell(get_ref_bits(i)) EXCEPT !.w0 = n])
      es == IF n = 0 THEN RowCopies(i, 0, 1) ELSE <<>>
  IN
  /\ MayStep(e)
  /\ pc[e] = "t_dec"
  /\ IF Resolvable(es)
     THEN /\ mem' = m1
          /\ alloc' = FreeAll(alloc, es)
          /\ frees' = frees + BadFrees(alloc, es)
          /\ loc' = [loc EXCEPT ![e].freed = es]
          /\ pc' = [pc EXCEPT ![e] = "t_next"]
          /\ flk' = flk
     ELSE /\ Crash(e)
          /\ mem' = m1
          /\ UNCHANGED <<alloc, frees, loc>>
  /\ UNCHANGED <<data, ret, ht, mq_list, file, hdr, nmsgs, msg, seen, row, copies, got, life, cfg>>

\* The write half, and the release of the row's copies by its last subscriber.
hazcat_take_decrement(e) ==
  LET i == loc[e].i
      n == U32Dec(loc[e].val)
      m1 == WriteCell(mem, get_ref_bits(i), [ReadCell(get_ref_bits(i)) EXCEPT !.w0 = n])
      es == IF n = 0 THEN RowCopies(i, 0, hdr.num_domains) ELSE <<>>
  IN
  /\ MayStep(e)
  /\ pc[e] = "t_dec"
  /\ IF Resolvable(es)
     THEN /\ mem' = m1
          /\ alloc' = FreeAll(alloc, es)
          /\ frees' = frees + BadFrees(alloc, es)
          /\ loc' = [loc EXCEPT ![e].freed = es]
          /\ pc' = [pc EXCEPT ![e] = "t_next"]
          /\ flk' = flk
     ELSE /\ Crash(e)
          /\ mem' = m1
          /\ UNCHANGED <<alloc, frees, loc>>
  /\ UNCHANGED <<data, ret, ht, mq_list, file, hdr, nmsgs, msg, seen, row, copies, got, life, cfg>>

\* A take that leaves next_index on the row it returned.
hazcat_take_return_stay(e) ==
  LET i == loc[e].i IN
  /\ MayStep(e)
  /\ pc[e] = "t_next"
  /\ data' = [data EXCEPT ![e].next_index = i]
  /\ flk' = [flk EXCEPT ![ProcOf(e)] = "U"]
  /\ ret' = [ret EXCEPT ![e] = [kind |-> "msg", i |-> i, alloc |-> loc[e].src,
                                off |-> loc[e].here, path |-> loc[e].path,
                                m |-> loc[e].m, freed |-> loc[e].freed,
                                skip |-> i # data[e].next_index,
                                payload |-> Payload(alloc, loc[e].src, loc[e].here)]]
  /\ got' = [got EXCEPT ![e] = Append(@, Payload(alloc, loc[e].src, loc[e].here))]
  /\ row' = [row EXCEPT ![i].taken = @ \cup {e}]
  /\ loc' = [loc EXCEPT ![e] = NoLoc]
  /\ pc' = [pc EXCEPT ![e] = "idle"]
  /\ UNCHANGED <<ht, mq_list, queue, alloc, nmsgs, msg, seen, copies, frees, life, cfg>>

\* next_index = (i + 1) % mq->len, fcntl(F_SETLK, F_UNLCK), return ret.
hazcat_take_return(e) ==
  LET i == loc[e].i IN
  /\ MayStep(e)
  /\ pc[e] = "t_next"
  /\ data' = [data EXCEPT ![e].next_index = (i + 1) % hdr.len]
  /\ flk' = [flk EXCEPT ![ProcOf(e)] = "U"]
  /\ ret' = [ret EXCEPT ![e] = [kind |-> "msg", i |-> i, alloc |-> loc[e].src,
                                off |-> loc[e].here, path |-> loc[e].path,
                                m |-> loc[e].m, freed |-> loc[e].freed,
                                skip |-> i # data[e].next_index,
                                payload |-> Payload(alloc, loc[e].src, loc[e].here)]]
  /\ got' = [got EXCEPT ![e] = Append(@, Payload(alloc, loc[e].src, loc[e].here))]
  /\ row' = [row EXCEPT ![i].taken = @ \cup {e}]
  /\ loc' = [loc EXCEPT ![e] = NoLoc]
  /\ pc' = [pc EXCEPT ![e] = "idle"]
  /\ UNCHANGED <<ht, mq_list, queue, alloc, nmsgs, msg, seen, copies, frees, life, cfg>>

(***************************************************************************)
(* hazcat_unregister_publisher / hazcat_unregister_subscription            *)
(***************************************************************************)
\* hashtable_remove, the check of data->mq and its reset.
hazcat_unregister_remove(e) ==
  /\ MayStart(e, FALSE)
  /\ cfg.unreg
  /\ life[e] = "reg" \/ (cfg.misuse /\ life[e] = "torn")
  /\ ht' = [ht EXCEPT ![ProcOf(e)] = @ \ {data[e].alloc}]
  /\ IF data[e].mq
     THEN /\ data' = [data EXCEPT ![e].mq = FALSE]
          /\ pc' = [pc EXCEPT ![e] = "u_lock"]
          /\ ret' = ret
     ELSE /\ data' = data
          /\ pc' = pc
          /\ ret' = [ret EXCEPT ![e] = [kind |-> "error", why |-> "InvalidArgument"]]
  /\ UNCHANGED <<loc, mq_list, flk, queue, alloc, hist, life, cfg>>

\* The write lock, the count, the destruction of a queue nobody is left on, and
\* the unlock.
hazcat_unregister_count(e) ==
  LET p == ProcOf(e)
      cnt == IF e \in Pubs THEN hdr.pub_count ELSE hdr.sub_count
      h1 == IF e \in Pubs THEN [hdr EXCEPT !.pub_count = @ - 1]
                          ELSE [hdr EXCEPT !.sub_count = @ - 1]
      last == h1.pub_count = 0 /\ h1.sub_count = 0
  IN
  /\ MayStep(e)
  /\ pc[e] = "u_lock"
  /\ CanLock(p, "W")
  /\ IF cnt > 0 /\ last /\ file.unlinked
     THEN \* shm_unlink of a name that is gone fails, after the munmap
          /\ hdr' = h1
          /\ mq_list' = [mq_list EXCEPT ![p] = "unmapped"]
          /\ file' = file
          /\ flk' = [flk EXCEPT ![p] = "W"]
          /\ ret' = [ret EXCEPT ![e] = [kind |-> "error", why |-> "SharedMemoryError"]]
     ELSE IF cnt > 0
     THEN /\ hdr' = h1
          /\ mq_list' = IF last THEN [mq_list EXCEPT ![p] = "unmapped"] ELSE mq_list
          /\ file' = IF last THEN [file EXCEPT !.exists = FALSE, !.unlinked = TRUE] ELSE file
          /\ flk' = [flk EXCEPT ![p] = "U"]
          /\ ret' = [ret EXCEPT ![e] = [kind |-> "ok"]]
     ELSE /\ hdr' = hdr
          /\ mq_list' = mq_list
          /\ file' = file
          /\ flk' = [flk EXCEPT ![p] = "W"]
          /\ ret' = [ret EXCEPT ![e] = [kind |-> "error", why |-> "CountUnderflow"]]
  /\ life' = [life EXCEPT ![e] = "torn"]
  /\ pc' = [pc EXCEPT ![e] = "idle"]
  /\ UNCHANGED <<data, loc, ht, mem, alloc, hist, cfg>>

(***************************************************************************)
(* Specifications.                                                         *)
(***************************************************************************)
Step(e) ==
  \/ hazcat_register_open(e)
  \/ hazcat_register_fstat(e)
  \/ hazcat_register_pub_or_sub(e)
  \/ hazcat_register_count(e)
  \/ borrow_message(e)
  \/ hazcat_publish_rdlock(e)
  \/ hazcat_publish_fetch_add(e)
  \/ hazcat_publish_cas(e)
  \/ hazcat_publish_release(e)
  \/ hazcat_publish_entry(e)
  \/ hazcat_publish_availability(e)
  \/ hazcat_publish_interest(e)
  \/ hazcat_publish_unlock(e)
  \/ hazcat_take_rdlock(e)
  \/ hazcat_take_select(e)
  \/ hazcat_take_check(e)
  \/ hazcat_take_share(e)
  \/ hazcat_take_copy(e)
  \/ hazcat_take_no_copy(e)
  \/ hazcat_take_read_interest(e)
  \/ hazcat_take_decrement(e)
  \/ hazcat_take_return(e)
  \/ hazcat_unregister_remove(e)
  \/ hazcat_unregister_count(e)

Next == \E e \in Endpoints : Step(e)

\* A scenario: the allocator (0: the endpoint stays away), the depth and the
\* process of P1, S1, S2 and P2, the endpoints whose publishes and takes may overlap, and
\* whether endpoints unregister.
Scenario(p1, s1, s2, p2, conc, unreg) ==
  [proc |-> [e \in Endpoints |-> IF e = "P1" THEN p1[3] ELSE IF e = "S1" THEN s1[3]
                                 ELSE IF e = "S2" THEN s2[3] ELSE p2[3]],
   alloc |-> [e \in Endpoints |-> IF e = "P1" THEN p1[1] ELSE IF e = "S1" THEN s1[1]
                                  ELSE IF e = "S2" THEN s2[1] ELSE p2[1]],
   depth |-> [e \in Endpoints |-> IF e = "P1" THEN p1[2] ELSE IF e = "S1" THEN s1[2]
                                  ELSE IF e = "S2" THEN s2[2] ELSE p2[2]],
   conc |-> conc, unreg |-> unreg, ctl |-> {}, misuse |-> FALSE]

\* The scenario c with the calls of the endpoints es free to overlap.
Overlapping(c, es) == [c EXCEPT !.ctl = es]

\* The scenario c with callers that also register a registered endpoint and
\* use an endpoint they have unregistered.
Misusing(c) == [c EXCEPT !.misuse = TRUE]

\* Calls never overlap.  One publisher and two subscribers: all in main memory
\* and in one process with equal depths, in main memory with different depths,
\* a subscriber on a device joining a deep queue, a CPU publisher with two
\* subscribers on one device, a device publisher with a subscriber on its
\* device and one in main memory, and endpoints on two devices.
SeqScenarios ==
  {Scenario(<<Cpu(1), 2, 1>>, <<Cpu(1), 2, 1>>, <<Cpu(2), 2, 1>>, <<0, 0, 2>>, {}, TRUE),
   Scenario(<<Cpu(1), 3, 1>>, <<Cpu(1), 1, 1>>, <<Cpu(2), 2, 2>>, <<0, 0, 2>>, {}, FALSE),
   Scenario(<<Cpu(1), 3, 1>>, <<Cpu(1), 3, 2>>, <<Cuda(0), 1, 2>>, <<0, 0, 2>>, {}, FALSE),
   Scenario(<<Cpu(1), 2, 1>>, <<Cuda(1), 2, 1>>, <<Cuda(1), 1, 2>>, <<0, 0, 2>>, {}, FALSE),
   Scenario(<<Cuda(1), 2, 1>>, <<Cuda(1), 1, 2>>, <<Cpu(1), 2, 2>>, <<0, 0, 2>>, {}, FALSE),
   Scenario(<<Cuda(1), 1, 1>>, <<Cuda(0), 2, 1>>, <<Cuda(1), 2, 2>>, <<0, 0, 2>>, {}, FALSE)}

Init == \E c \in SeqScenarios : InitWith(c)
Spec == Init /\ [][Next]_vars

\* Publishes and takes overlap.  Two subscribers in main memory taking from a
\* device publisher, two publishers on a queue of one row, and two subscribers
\* on a queue a later registration has cut short.
ConcScenarios ==
  {Scenario(<<Cuda(0), 2, 1>>, <<Cpu(1), 2, 1>>, <<Cpu(2), 2, 2>>, <<0, 0, 2>>, {"S1", "S2"}, FALSE),
   Scenario(<<Cpu(1), 1, 1>>, <<Cpu(1), 1, 1>>, <<0, 0, 2>>, <<Cuda(0), 1, 2>>, {"P1", "P2"}, TRUE),
   Scenario(<<Cpu(1), 3, 1>>, <<Cpu(1), 3, 2>>, <<Cuda(0), 1, 2>>, <<0, 0, 2>>, {"S1", "S2"}, FALSE)}

InitConc == \E c \in ConcScenarios : InitWith(c)
SpecConc == InitConc /\ [][Next]_vars

\* A publish and a take overlap: both hold the read lock, which is shared.  A
\* publisher and a subscriber in main memory in two processes, which also
\* unregister, and a device publisher with a subscriber in main memory.
RaceScenarios ==
  {Scenario(<<Cpu(1), 2, 1>>, <<Cpu(2), 2, 2>>, <<0, 0, 2>>, <<0, 0, 2>>, {"P1", "S1"}, TRUE),
   Scenario(<<Cuda(0), 2, 1>>, <<Cpu(1), 1, 2>>, <<0, 0, 2>>, <<0, 0, 2>>, {"P1", "S1"}, FALSE)}

InitRace == \E c \in RaceScenarios : InitWith(c)
SpecRace == InitRace /\ [][Next]_vars

\* Calls never overlap and the queue grows while it is in use: a publisher and
\* a subscriber of depth 2 in main memory, joined by a subscriber of depth 3; and
\* a publisher and a subscriber of depth 3 in main memory joined by a subscriber
\* of depth 1 on a device.
GrowScenarios ==
  {Scenario(<<Cpu(1), 2, 1>>, <<Cpu(1), 2, 1>>, <<Cpu(2), 3, 2>>, <<0, 0, 2>>, {}, TRUE),
   Scenario(<<Cpu(1), 3, 1>>, <<Cpu(1), 3, 2>>, <<Cuda(0), 1, 2>>, <<0, 0, 2>>, {}, FALSE)}

InitGrow == \E c \in GrowScenarios : InitWith(c)
SpecGrow == InitGrow /\ [][Next]_vars

\* Registrations and unregistrations overlap other calls.  A publisher and a
\* subscriber that are threads of one process, with a second subscriber in
\* another process; a publisher and a subscriber in two processes that also
\* unregister; a subscriber on a device that joins a deep queue between calls;
\* and a publisher and a subscriber on two devices that are threads of one process.
CtlScenarios ==
  {Overlapping(Scenario(<<Cpu(1), 2, 1>>, <<Cpu(1), 2, 1>>, <<Cpu(2), 2, 2>>, <<0, 0, 2>>, {}, FALSE),
               {"P1", "S1"}),
   Overlapping(Scenario(<<Cuda(0), 1, 1>>, <<Cuda(1), 1, 1>>, <<0, 0, 2>>, <<0, 0, 2>>, {}, FALSE),
               {"P1", "S1"}),
   Overlapping(Scenario(<<Cpu(1), 2, 1>>, <<0, 0, 1>>, <<Cpu(2), 2, 2>>, <<0, 0, 2>>, {}, TRUE),
               {"P1", "S2"}),
   Scenario(<<Cpu(1), 3, 1>>, <<Cpu(1), 3, 2>>, <<Cuda(0), 1, 2>>, <<0, 0, 2>>, {}, FALSE)}

InitCtl == \E c \in CtlScenarios : InitWith(c)
SpecCtl == InitCtl /\ [][Next]_vars

\* Fair scheduling: a call in flight whose next step is possible takes it in
\* the end.  Nothing obliges a caller to make another call.
Continue(e) == MayStep(e) /\ Step(e)
Fairness == \A e \in Endpoints : WF_vars(Continue(e))

\* An all-CPU topic of one process whose endpoints unregister, and a topic with
\* a publisher in one process and two subscribers in another.
FairScenarios ==
  {Scenario(<<Cpu(1), 2, 1>>, <<Cpu(1), 2, 1>>, <<Cpu(2), 2, 1>>, <<0, 0, 2>>, {}, TRUE),
   Scenario(<<Cpu(1), 3, 1>>, <<Cpu(1), 3, 2>>, <<Cuda(0), 1, 2>>, <<0, 0, 2>>, {}, FALSE)}

InitFair == \E c \in FairScenarios : InitWith(c)
SpecFair == InitFair /\ [][Next]_vars /\ Fairness

\* Callers that do not keep to the life cycle of an endpoint: a publisher and a
\* subscriber in main memory in one process, registered again while registered
\* and used after they were unregistered; and a subscriber on a device that
\* joins a deep queue.
LifeScenarios ==
  {Misusing(Scenario(<<Cpu(1), 2, 1>>, <<Cpu(1), 2, 1>>, <<0, 0, 2>>, <<0, 0, 2>>, {}, TRUE)),
   Scenario(<<Cpu(1), 3, 1>>, <<Cpu(1), 3, 2>>, <<Cuda(0), 1, 2>>, <<0, 0, 2>>, {}, FALSE)}

InitLife == \E c \in LifeScenarios : InitWith(c)
SpecLife == InitLife /\ [][Next]_vars

\* Registrations on a topic that endpoints on many devices join: the calls of
\* two endpoints on devices and one in main memory, and those of the endpoints
\* of further processes.
Register(e) ==
  \/ hazcat_register_open(e)
  \/ hazcat_register_fstat(e)
  \/ hazcat_register_pub_or_sub(e)
  \/ hazcat_register_count(e)

NextDom ==
  \/ \E e \in Endpoints : Register(e)
  \/ \E n \in OutsideDevices : hazcat_register_outside(n)

DomScenarios ==
  {Scenario(<<Cuda(0), 2, 1>>, <<Cuda(1), 1, 1>>, <<Cpu(1), 3, 2>>, <<0, 0, 2>>, {}, FALSE)}

InitDom == \E c \in DomScenarios : InitWith(c)
SpecDom == InitDom /\ [][NextDom]_vars

\* A ring allocator on its own, as the allocator tests use it: one caller
\* allocates, fills and deallocates items in every order, and keeps the offsets
\* it was handed in its locals.  The sizes a caller asks for: none, one item,
\* two items.
Sizes == {0, ItemSize, ItemSize + ItemSize}
Floats == {1, 2}

\* The allocations of caller e that have not been deallocated.
Held(e) == loc[e].prev

\* int a = ALLOCATE(alloc, size)
ring_allocate(e, size) ==
  LET a == cfg.alloc[e]
      res == cpu_ringbuf_allocate(alloc[a], size)
  IN
  /\ a \in AllocIds
  /\ alloc' = [alloc EXCEPT ![a] = res.ring]
  /\ ret' = [ret EXCEPT ![e] = [kind |-> "allocate", size |-> size, off |-> res.off]]
  /\ loc' = [loc EXCEPT ![e].prev =
               IF res.off = NO_SPACE THEN @ ELSE @ \cup {[id |-> a, off |-> res.off]}]
  /\ UNCHANGED <<pc, data, ht, mq_list, flk, queue, hist, life, cfg>>

\* *(float *)((uint8_t *)alloc + a) = v, on an allocation the caller holds
ring_write(e, v) ==
  \E h \in Held(e) :
  /\ alloc' = [alloc EXCEPT ![h.id].data[OffsetSlot(h.off)] = v]
  /\ ret' = [ret EXCEPT ![e] = [kind |-> "write", off |-> h.off]]
  /\ UNCHANGED <<pc, data, loc, ht, mq_list, flk, queue, hist, life, cfg>>

\* DEALLOCATE(alloc, a), on an allocation the caller holds
ring_deallocate(e) ==
  \E h \in Held(e) :
  /\ alloc' = [alloc EXCEPT ![h.id] = DEALLOCATE(@, h.off)]
  /\ ret' = [ret EXCEPT ![e] = [kind |-> "deallocate", off |-> h.off]]
  /\ loc' = [loc EXCEPT ![e].prev = @ \ {h}]
  /\ UNCHANGED <<pc, data, ht, mq_list, flk, queue, hist, life, cfg>>

NextRing ==
  \E e \in Endpoints :
    \/ \E size \in Sizes : ring_allocate(e, size)
    \/ \E v \in Floats : ring_write(e, v)
    \/ ring_deallocate(e)

\* One caller with a CPU ring, one with a CUDA ring.
RingScenarios ==
  {Scenario(<<Cpu(1), 1, 1>>, <<0, 0, 1>>, <<0, 0, 2>>, <<0, 0, 2>>, {}, FALSE),
   Scenario(<<Cuda(0), 1, 1>>, <<0, 0, 1>>, <<0, 0, 2>>, <<0, 0, 2>>, {}, FALSE)}

InitRing == \E c \in RingScenarios : InitWith(c)
SpecRing == InitRing /\ [][NextRing]_vars

(***************************************************************************)
(* Properties.                                                             *)
(***************************************************************************)
\* No call is in flight and no process has died.
Quiescent == \A e \in Endpoints : pc[e] = "idle"

\* Subscriber s has returned from a take with the message of publish number m.
Took(s) == ret[s].kind = "msg" /\ ret[s].m # 0

\* C1: a subscriber whose allocator is in the domain of the publisher's allocator
\* receives the message without a copy: the take returns the publisher's
\* allocator and the offset the publisher stored.
C1_ZeroCopySameDomain ==
  \A s \in Subs :
    (Took(s) /\ domain(data[s].alloc) = domain(msg[ret[s].m].a))
      => /\ ret[s].path = "share"
         /\ ret[s].alloc = msg[ret[s].m].a
         /\ ret[s].off = msg[ret[s].m].o

\* C2: when a subscriber of another domain than the publisher's has taken a
\* message through a copy, a subscriber of that same domain taking the same
\* message makes no copy and receives the allocator and offset of that copy.
C2_LazyCopyReuse ==
  \A s \in Subs : \A t \in Subs \ {s} :
    (/\ Took(s) /\ Took(t) /\ ret[s].m = ret[t].m
     /\ domain(data[s].alloc) = domain(data[t].alloc)
     /\ domain(data[s].alloc) # domain(msg[ret[s].m].a)
     /\ ret[s].path = "copy")
      => /\ ret[t].path = "share"
         /\ ret[t].alloc = ret[s].alloc
         /\ ret[t].off = ret[s].off

\* C3: whatever the interleaving of the takes, a message is copied at most once
\* into any destination domain.
C3_AtMostOneCopy == \A c \in copies : c[3] = 1

\* C4: when a take returns a message, the row it returns lies at most depth rows
\* behind the write index, and the subscriber's next_index is left at most depth
\* rows behind it: (index + len - next_index) mod len <= depth.
C4_KeepLast ==
  [][\A s \in Subs :
       (pc[s] = "t_next" /\ pc'[s] = "idle")
         => /\ (hdr'.index + hdr'.len - data'[s].next_index) % hdr'.len <= data'[s].depth
            /\ (hdr'.index + hdr'.len - ret'[s].i) % hdr'.len <= data'[s].depth]_vars

\* A take has returned a message after skipping ahead of its next_index.
C4_Witness == \E s \in Subs : pc[s] = "idle" /\ ret[s].kind = "msg" /\ ret[s].skip

\* One process, every endpoint in main memory and of the depth of s, nobody
\* unregistered.
SingleProcessCpuTopic(s) ==
  \A e \in Endpoints :
    \/ cfg.alloc[e] = 0
    \/ /\ cfg.proc[e] = cfg.proc[s] /\ device_type(cfg.alloc[e]) = CPU
       /\ cfg.depth[e] = cfg.depth[s] /\ life[e] # "torn"

\* C5: with one publisher and subscribers of depth D, when D + 1 messages are
\* published before any take, a subscriber's takes return messages 2 .. D + 1 in
\* order and then no message.
C5_OverwriteOnFull ==
  \A s \in Subs :
    (/\ SingleProcessCpuTopic(s)
     /\ seen[s].reg = 0
     /\ seen[s].take = cfg.depth[s] + 1
     /\ nmsgs = cfg.depth[s] + 1
     /\ pc[s] = "idle" /\ ret[s].kind = "empty")
      => got[s] = [k \in 1..cfg.depth[s] |-> k + 1]

\* C6: outside calls, the interest_count of a published row is 0 exactly when
\* every subscriber registered at the time of the publish has taken the row.
C6_InterestAccounting ==
  Quiescent =>
    \A i \in 0..(hdr.len - 1) :
      row[i].m # 0 => (interest_count(i) = 0 <=> row[i].owed \subseteq row[i].taken)

\* C7: outside calls, a row's availability is nonzero exactly when its
\* interest_count is nonzero.
C7_AvailabilityIffInterest ==
  Quiescent =>
    \A i \in 0..(hdr.len - 1) : (availability(i) # 0 <=> U32Positive(interest_count(i)))

\* C8: outside calls, for every availability bit c set in a row, the entry of
\* column c names an allocator of the domain domains[c] and a live allocation
\* in it.
C8_AvailableEntryLive ==
  Quiescent =>
    \A i \in 0..(hdr.len - 1) : \A c \in 0..(DOMAINS_PER_TOPIC - 1) :
      BitSet(availability(i), c)
        => /\ hashtable_get(Entry(c, i).w0) # 0
           /\ domain(Entry(c, i).w0) = hdr.domains[c]
           /\ Live(alloc, Entry(c, i).w0, Entry(c, i).w1)

\* The set of the elements of a sequence.
Range(f) == {f[k] : k \in 1..Len(f)}

\* C9: a publish that found its row live (interest_count > 0) has deallocated
\* each copy of the message the row held exactly once, each of them a live
\* allocation, before writing its entry; a publish that found its row not live
\* has deallocated nothing.
C9_OverwriteReleases ==
  \A p \in Pubs :
    ret[p].kind = "pub"
      => IF U32Positive(ret[p].count)
         THEN /\ Range(ret[p].freed) = ret[p].prev
              /\ Len(ret[p].freed) = Cardinality(ret[p].prev)
              /\ ret[p].bad = 0
         ELSE ret[p].freed = <<>>

\* The rows a publish is writing.
InPublish(i) ==
  \E p \in Pubs : pc[p] \in {"p_entry", "p_avail", "p_count", "p_unlock"} /\ loc[p].i = i

\* C10: the entry, the availability and the interest_count of a row no publish
\* is writing are the work of one publish call.
C10_OnePublisherPerRow ==
  \A i \in Rows : ~InPublish(i) => (row[i].e = row[i].a /\ row[i].a = row[i].n)

\* The subscribers whose last take returned the message row i holds and
\* deallocated the row's entries on the way.
Releasers(i) ==
  {s \in Subs : Took(s) /\ ret[s].i = i /\ ret[s].m = row[i].m /\ ret[s].freed # <<>>}

\* C11: outside calls, when N of the subscribers a row is owed to have taken it,
\* whatever the overlap of their takes, its interest_count stands N below the
\* number it was published with, and no two of them have deallocated its entries.
C11_TakersSerialized ==
  Quiescent =>
    \A i \in 0..(hdr.len - 1) :
      (row[i].m # 0 /\ row[i].n = row[i].m /\ row[i].taken \subseteq row[i].owed)
        => /\ interest_count(i) = Cardinality(row[i].owed) - Cardinality(row[i].taken)
           /\ Cardinality(Releasers(i)) <= 1

\* e is between the acquisition and the release of the exclusive file lock.
InStructural(e) == pc[e] \in {"r_map", "r_count"}

\* e is between the acquisition and the release of the shared file lock.
InShared(e) == pc[e] \in {"p_fetch", "p_cas", "p_row", "p_entry", "p_avail", "p_count",
                          "p_unlock", "t_sel", "t_avail", "t_share", "t_copy", "t_read",
                          "t_dec", "t_next", "hung"}

\* C12: while a register or unregister call holds the exclusive file lock, no
\* publish or take of any thread of any process is between taking and releasing
\* the shared lock.
C12_StructuralExclusion ==
  \A e \in Endpoints : \A x \in Endpoints \ {e} : ~(InStructural(e) /\ InShared(x))

\* The publishers that hold the slot their fetch-and-increment returned.
HasSlot(p) == pc[p] \in {"p_cas", "p_row", "p_entry", "p_avail", "p_count", "p_unlock"}

\* C13: whatever the interleaving of the publishers, the slot a publish has
\* obtained from the fetch-and-increment of index, and writes, is in 0 .. len - 1.
C13_SlotInRange ==
  \A p \in Pubs : HasSlot(p) => (0 <= loc[p].i /\ loc[p].i < hdr.len)

\* C14: when every call has returned, with success, with no message or with an
\* error, no process holds a lock on the queue file.
C14_LockReleasedOnReturn == Quiescent => \A p \in Procs : flk[p] = "U"

\* C15: under fair scheduling every call in flight returns, unless its process
\* dies.
C15_CallsReturn ==
  \A e \in Endpoints : (pc[e] # "idle") ~> (pc[e] \in {"idle", "crashed"})

\* e is in, or enters, a call its state does not allow: a register while it is
\* registered, any call after it was unregistered.
Misused(e) ==
  \/ life[e] = "torn"
  \/ life[e] = "reg" /\ (pc[e] \in {"r_lock", "r_map", "r_count"} \/ pc'[e] = "r_lock")

\* The step is one of a call of e.
Acts(e) ==
  \/ pc'[e] # pc[e] /\ ~(Idle(e) /\ pc'[e] = "crashed")
  \/ ret'[e] # ret[e]

InvalidArgument == [kind |-> "error", why |-> "InvalidArgument"]

\* C16: a register of a registered endpoint, and an unregister, publish or take
\* of an unregistered one, leaves pub_count, sub_count and the allocator registry
\* of the process as they are and returns InvalidArgument.
C16_LifeCycle ==
  [][\A e \in Endpoints :
       (Misused(e) /\ Acts(e))
         => /\ hdr'.pub_count = hdr.pub_count
            /\ hdr'.sub_count = hdr.sub_count
            /\ ht' = ht
            /\ pc'[e] # "crashed"
            /\ pc'[e] = "idle" => ret'[e] = InvalidArgument]_vars

\* The domain is the domain of none of the columns of the header.
NotAColumn(h, dom) == \A c \in 0..(h.num_domains - 1) : h.domains[c] # dom

\* C17: a queue has between 1 and DOMAINS_PER_TOPIC columns; a registration with
\* a domain that is none of its columns appends a column for the domain and goes
\* on while there are fewer than DOMAINS_PER_TOPIC, and otherwise fails with an
\* error and leaves num_domains, domains, len and the counts as they are.
C17_DomainColumns ==
  [][/\ file'.size > 0 => (1 <= hdr'.num_domains /\ hdr'.num_domains <= DOMAINS_PER_TOPIC)
     /\ \A e \in Endpoints :
          (/\ pc[e] \in {"r_lock", "r_map"} /\ pc'[e] \notin {"r_lock", "r_map"}
           /\ file.size > 0
           /\ NotAColumn(hdr, domain(data[e].alloc)))
            => IF hdr.num_domains < DOMAINS_PER_TOPIC
               THEN /\ pc'[e] = "r_count"
                    /\ hdr'.num_domains = hdr.num_domains + 1
                    /\ hdr'.domains = [hdr.domains EXCEPT ![hdr.num_domains] = domain(data[e].alloc)]
               ELSE /\ pc'[e] = "idle"
                    /\ ret'[e].kind = "error"
                    /\ hdr' = hdr]_vars

\* A registration has failed on a queue with DOMAINS_PER_TOPIC columns.
C17_Witness ==
  \E e \in Endpoints :
    /\ ret[e] = [kind |-> "error", why |-> "TooManyDomains"]
    /\ hdr.num_domains = DOMAINS_PER_TOPIC

\* The step destroys the queue: the caller unmaps it and unlinks its name.
Destroys(e) ==
  /\ ~file.unlinked /\ file'.unlinked
  /\ mq_list'[ProcOf(e)] = "unmapped"

\* C18: an unregister call destroys the queue exactly when it leaves pub_count
\* and sub_count both 0; nothing else destroys it, and no endpoint of any process
\* is registered on a queue that has been destroyed.
C18_QueueLifetime ==
  [][/\ \A e \in Endpoints :
          (pc[e] = "u_lock" /\ pc'[e] = "idle")
            => (Destroys(e) <=> (/\ hdr'.pub_count = 0 /\ hdr'.sub_count = 0
                                 /\ hdr' # hdr))
     /\ (~file.unlinked /\ file'.unlinked)
          => \E e \in Endpoints : pc[e] = "u_lock" /\ pc'[e] = "idle"
     /\ file'.unlinked => \A x \in Endpoints : life'[x] # "reg"]_vars

\* The endpoints of the set that are registered on the topic.
Registered(es) == {e \in es : life[e] = "reg"}

\* C19: outside calls, after any sequence of register and unregister calls of
\* any processes, pub_count is the number of the registered publishers and
\* sub_count the number of the registered subscribers, both within
\* 0 .. UINT16_MAX.
C19_CountsMatch ==
  Quiescent =>
    /\ hdr.pub_count = Cardinality(Registered(Pubs))
    /\ hdr.sub_count = Cardinality(Registered(Subs))
    /\ hdr.pub_count \in 0..UINT16_MAX
    /\ hdr.sub_count \in 0..UINT16_MAX

\* C20: column 0 of a queue is CPU, and a registration, publish, take or
\* unregister leaves every column the queue has as it is: num_domains never goes
\* down and domains[c] stays what it was for every c below it.
C20_ColumnStability ==
  [][/\ file'.size > 0 => hdr'.domains[0] = CPU
     /\ file.size > 0
          => /\ hdr'.num_domains >= hdr.num_domains
             /\ \A c \in 0..(hdr.num_domains - 1) : hdr'.domains[c] = hdr.domains[c]]_vars

\* The take of s read its entry inside the queue: through the copy path, or
\* through the share path of a subscriber in main memory.
ReadInQueue(s) == ret[s].path = "copy" \/ domain(data[s].alloc) = CPU

\* C21: a take of a subscriber since whose registration nothing was published
\* returns "no message"; the row a take returns was published after its
\* subscriber registered, and so was the message it hands out.
C21_IgnoresEarlier ==
  [][\A s \in Subs :
       /\ (pc[s] = "t_sel" /\ pc'[s] \notin {"t_sel", "crashed"} /\ nmsgs = seen[s].reg)
            => (pc'[s] = "idle" /\ ret'[s].kind = "empty")
       /\ (pc[s] = "t_next" /\ pc'[s] = "idle")
            => /\ ret'[s].m > seen[s].reg
               /\ ReadInQueue(s)' => ret'[s].payload > seen[s].reg]_vars

\* A subscriber that registered on a queue with a message in it has taken a
\* message.
C21_Witness ==
  \E s \in Subs : seen[s].reg >= 1 /\ pc[s] = "idle" /\ ret[s].kind = "msg" /\ ReadInQueue(s)

\* The step is a call of allocate by e.
Allocates(e) ==
  /\ cfg.alloc[e] \in AllocIds
  /\ ret'[e].kind = "allocate"
  /\ ret'[e] # ret[e] \/ loc'[e] # loc[e]

\* C22: allocate on a ring with count < ring_size returns the offset
\* header_size + ((rear_it + count) mod ring_size) * item_size, whatever the
\* size asked for, adds one to count and leaves rear_it and the items' bytes
\* as they are.
C22_RingAllocate ==
  [][\A e \in Endpoints :
       (Allocates(e) /\ alloc[cfg.alloc[e]].count < RingSize)
         => LET a == cfg.alloc[e]
                r == alloc[a]
                o == HeaderSize + ((r.rear_it + r.count) % RingSize) * ItemSize
            IN /\ ret'[e].off = o
               /\ alloc'[a].count = r.count + 1
               /\ alloc'[a].rear_it = r.rear_it
               /\ alloc'[a].data = r.data
               /\ Held(e)' = Held(e) \cup {[id |-> a, off |-> o]}]_vars

\* The ring has wrapped: with the rear at the last slot, an allocate of two
\* items has handed out the first slot again, behind an item that is still held.
C22_Witness ==
  \E e \in Endpoints :
    /\ cfg.alloc[e] \in AllocIds
    /\ ret[e] = [kind |-> "allocate", size |-> ItemSize + ItemSize, off |-> SlotOffset(0)]
    /\ alloc[cfg.alloc[e]].rear_it = RingSize - 1
    /\ alloc[cfg.alloc[e]].count = 2
    /\ alloc[cfg.alloc[e]].data[RingSize - 1] # 0

\* C23: allocate on a ring with count = ring_size returns NO_SPACE (-1) and
\* leaves count, rear_it, the items and the allocations held as they are.
C23_RingFull ==
  [][\A e \in Endpoints :
       (Allocates(e) /\ alloc[cfg.alloc[e]].count = RingSize)
         => /\ ret'[e].off = -1
            /\ ret'[e].off = NO_SPACE
            /\ alloc' = alloc
            /\ Held(e)' = Held(e)]_vars

\* An allocate has returned NO_SPACE on a ring whose slots are all held.
C23_Witness ==
  \E e \in Endpoints :
    /\ cfg.alloc[e] \in AllocIds
    /\ ret[e].kind = "allocate" /\ ret[e].off = NO_SPACE
    /\ Cardinality(Held(e)) = RingSize

\* The allocations of allocator a that callers hold.
HeldOf(a) == UNION {{h \in Held(e) : h.id = a} : e \in Endpoints}

\* C24: after any sequence of allocate and deallocate, count is in
\* 0 .. ring_size and rear_it in 0 .. ring_size - 1, count covers the
\* allocations held, and it is 0 again once all of them have been deallocated,
\* in whatever order.
C24_RingConservation ==
  \A a \in AllocIds :
    /\ 0 <= alloc[a].count /\ alloc[a].count <= RingSize
    /\ 0 <= alloc[a].rear_it /\ alloc[a].rear_it < RingSize
    /\ Cardinality(HeldOf(a)) <= alloc[a].count
    /\ HeldOf(a) = {} => alloc[a].count = 0

\* The last of the allocations has been deallocated, and the rear has moved
\* over more than its slot: an item behind it was deallocated before it.
C24_Witness ==
  \E e \in Endpoints :
    /\ cfg.alloc[e] \in AllocIds
    /\ ret[e].kind = "deallocate"
    /\ HeldOf(cfg.alloc[e]) = {}
    /\ alloc[cfg.alloc[e]].rear_it # (OffsetSlot(ret[e].off) + 1) % RingSize

\* The step is a call of deallocate by e.
Deallocates(e) ==
  /\ cfg.alloc[e] \in AllocIds
  /\ ret'[e].kind = "deallocate"
  /\ Held(e)' # Held(e)

\* The number of slots from the rear of r up to the first one, behind the rear,
\* that holds one of the allocations hs; count when there is none.
RearRun(r, hs) ==
  LET held(n) == \E h \in hs : OffsetSlot(h.off) = (r.rear_it + n) % RingSize IN
  CHOOSE n \in 1..r.count :
    /\ n = r.count \/ held(n)
    /\ \A j \in 1..(n - 1) : ~held(j)

\* C25: deallocate of the item at the rear moves rear_it forward, modulo
\* ring_size, over that item and over the run of already deallocated items
\* behind it, and takes them off count: one slot when the next item is still
\* held; deallocate of another item leaves rear_it and count as they are.
C25_RingDeallocate ==
  [][\A e \in Endpoints :
       Deallocates(e)
         => LET a == cfg.alloc[e]
                r == alloc[a]
                n == RearRun(r, HeldOf(a)')
            IN IF OffsetSlot(ret'[e].off) = r.rear_it
               THEN /\ alloc'[a].rear_it = (r.rear_it + n) % RingSize
                    /\ alloc'[a].count = r.count - n
               ELSE /\ alloc'[a].rear_it = r.rear_it
                    /\ alloc'[a].count = r.count]_vars

\* The first item has been deallocated after the second one, and the rear
\* stands at the third, which is still held: two slots reclaimed at once.
C25_Witness ==
  \E e \in Endpoints :
    /\ cfg.alloc[e] \in AllocIds
    /\ ret[e] = [kind |-> "deallocate", off |-> SlotOffset(0)]
    /\ Held(e) = {[id |-> cfg.alloc[e], off |-> SlotOffset(2)]}
    /\ alloc[cfg.alloc[e]].rear_it = 2
    /\ alloc[cfg.alloc[e]].count = 1

\* The cell k of the memory m, read through the mapping.
CellAt(m, k) == IF InMap(k) THEN m[k] ELSE ZeroCell

\* C27: with no other publisher in a call, a publish that took slot i returns
\* with i in 0 .. len - 1, index = (i + 1) mod len, entry[array_num][i] = (shmem
\* id of the publisher's allocator, offset of the message, len of the message),
\* availability[i] = 1 << array_num and nothing else, interest_count[i] =
\* sub_count, and the row lock free.
C27_PublishCommit ==
  [][\A p \in Pubs :
       (/\ pc[p] = "p_unlock" /\ pc'[p] = "idle"
        /\ \A q \in Pubs \ {p} : Idle(q))
         => LET i == loc[p].i
                c == data[p].array_num
                ref_bits == CellAt(mem', i)
                entry == CellAt(mem', hdr'.len + c * hdr'.len + i)
            IN /\ 0 <= i /\ i < hdr'.len
               /\ hdr'.index = (i + 1) % hdr'.len
               /\ entry = [w0 |-> data[p].alloc, w1 |-> msg[loc[p].m].o, w2 |-> ItemSize]
               /\ ref_bits.w1 = 2 ^ c
               /\ ref_bits.w0 = hdr'.sub_count
               /\ ref_bits.w2 = 0]_vars

\* A publisher whose column is not the first has written a row of a queue that
\* subscribers are registered on, a row that held a message with a copy in
\* another column.
C27_Witness ==
  \E p \in Pubs :
    /\ pc[p] = "idle" /\ ret[p].kind = "pub"
    /\ data[p].array_num > 0
    /\ hdr.sub_count > 0
    /\ ret[p].prev # {}

\* The entries of row i whose availability bit is set, read from the memory m
\* of a queue of header h.
SetEntries(m, h, i) ==
  {[id |-> CellAt(m, h.len + c * h.len + i).w0, off |-> CellAt(m, h.len + c * h.len + i).w1] :
     c \in {d \in 0..(h.num_domains - 1) : BitSet(CellAt(m, i).w1, d)}}

\* C28: a take that brings the interest_count of its row to 0 deallocates every
\* entry of the row whose availability bit is set, each a live allocation of
\* the allocator it names and each exactly once; a take that leaves
\* interest_count above 0 deallocates nothing.
C28_LastTakerRelease ==
  [][\A s \in Subs :
       (pc[s] = "t_dec" /\ pc'[s] # "t_dec")
         => LET i == loc[s].i
                due == SetEntries(mem, hdr, i)
            IN IF CellAt(mem', i).w0 = 0
               THEN /\ pc'[s] = "t_next"
                    /\ Range(loc'[s].freed) = due
                    /\ Len(loc'[s].freed) = Cardinality(due)
                    /\ \A h \in due :
                         Live(alloc, h.id, h.off) /\ ~Live(alloc', h.id, h.off)
                    /\ frees' = frees
               ELSE /\ loc'[s].freed = <<>>
                    /\ alloc' = alloc]_vars

\* The last of two subscribers has taken a message and deallocated both the
\* publisher's allocation and the copy made for the subscribers' domain.
C28_Witness ==
  \E s \in Subs :
    /\ pc[s] = "idle" /\ ret[s].kind = "msg"
    /\ Len(ret[s].freed) = 2
    /\ row[ret[s].i].owed = Subs

\* C29: when a registration returns with success, the endpoint's array_num is
\* below num_domains, domains[array_num] is the domain of the endpoint's
\* allocator, every registered endpoint of the same domain has the same
\* array_num, and domains[0 .. num_domains) are pairwise distinct.
C29_ColumnOfDomain ==
  [][\A e \in Endpoints :
       (pc[e] = "r_count" /\ pc'[e] = "idle" /\ ret'[e].kind = "ok")
         => /\ data'[e].array_num < hdr'.num_domains
            /\ hdr'.domains[data'[e].array_num] = domain(data'[e].alloc)
            /\ \A f \in Endpoints \ {e} :
                 (life'[f] = "reg" /\ domain(data'[f].alloc) = domain(data'[e].alloc))
                   => data'[f].array_num = data'[e].array_num
            /\ \A b \in 0..(hdr'.num_domains - 1) : \A c \in 0..(hdr'.num_domains - 1) :
                 b # c => hdr'.domains[b] # hdr'.domains[c]]_vars

\* C30: a registration never makes len smaller, and when it returns with
\* success len is at least the endpoint's depth and the queue file holds the
\* len ref_bits and the num_domains * len entries behind the header.
C30_SegmentHoldsQueue ==
  [][\A e \in Endpoints :
       /\ (pc[e] \in {"r_lock", "r_map"} /\ pc'[e] = "r_count" /\ file.size > 0)
            => hdr'.len >= hdr.len
       /\ (pc[e] = "r_count" /\ pc'[e] = "idle" /\ ret'[e].kind = "ok")
            => /\ hdr'.len >= data'[e].depth
               /\ file'.size >= hdr'.len + hdr'.num_domains * hdr'.len]_vars

\* The step is one of the take of subscriber s: its start, or a step from a
\* place inside the call.
TakeStep(s) ==
  /\ pc'[s] # pc[s]
  /\ \/ pc[s] = "idle" /\ pc'[s] = "t_sel"
     \/ pc[s] \in {"t_sel", "t_avail", "t_share", "t_copy", "t_read", "t_dec", "t_next"}

\* C31: a step of a take by subscriber S on row i changes, of the queue, only
\* ref_bits[i] and entry[S.array_num][i], and of the endpoints only S.next_index;
\* the header, the file, every other cell and every other endpoint's data stay as
\* they are, and the take holds no lock that excludes a publisher.
C31_TakeFrame ==
  [][\A s \in Subs :
       TakeStep(s)
         => LET i == loc[s].i IN
            /\ hdr' = hdr
            /\ file' = file
            /\ \A t \in Endpoints \ {s} : data'[t] = data[t]
            /\ data'[s] = [data[s] EXCEPT !.next_index = data'[s].next_index]
            /\ \A k \in Cells :
                 mem'[k] # mem[k]
                   => k \in {i, hdr.len + data[s].array_num * hdr.len + i}
            /\ flk'[ProcOf(s)] # "W"]_vars

\* A subscriber has taken, by a copy into its own column, a row other than row 0
\* while another row held a message.
C31_Witness ==
  \E s \in Subs :
    /\ pc[s] = "idle" /\ ret[s].kind = "msg" /\ ret[s].path = "copy"
    /\ ret[s].i > 0
    /\ \E j \in 0..(hdr.len - 1) : j # ret[s].i /\ row[j].m # 0

\* A publish has advanced index past row i and has not yet written the row's
\* entry, availability and interest_count.
Uncommitted(i) ==
  \E p \in Pubs : pc[p] \in {"p_cas", "p_row", "p_entry", "p_avail", "p_count"} /\ loc[p].i = i

\* C32: a take that overlaps a publish never selects a row whose publish has
\* advanced index and not yet written the row, and selects no row while index is
\* not below len.
C32_TakeSeesCommitted ==
  [][\A s \in Subs :
       (pc[s] = "t_sel" /\ pc'[s] = "t_avail")
         => /\ ~Uncommitted(loc'[s].i)
            /\ hdr.index < hdr.len]_vars

\* C33: when calls do not overlap, every row a take selects holds a message
\* some publish has written: its availability is not 0, and the lowest column
\* with its bit set is a column of the queue.
C33_SelectedRowPublished ==
  [][\A s \in Subs :
       (pc[s] = "t_sel" /\ pc'[s] = "t_avail")
         => LET i == loc'[s].i IN
            /\ row[i].m # 0
            /\ CellAt(mem, i).w1 # 0
            /\ FirstAvailable(CellAt(mem, i).w1) < hdr.num_domains]_vars

\* A row holds a message published after subscriber s registered that s has
\* not taken and that is newer than every message s took.
Pending(s) ==
  \E i \in Rows :
    /\ row[i].m > seen[s].reg
    /\ s \notin row[i].taken
    /\ \A j \in Rows : s \in row[j].taken => row[j].m < row[i].m

\* C34: a take returns "no message" only when no message has been published
\* since the subscriber registered or last took a message; while there is one,
\* also after exactly len publishes, the take returns a message.
C34_EmptyOnlyWhenNothingNew ==
  [][\A s \in Subs :
       (pc[s] = "t_sel" /\ pc'[s] = "idle" /\ ret'[s].kind = "empty") => ~Pending(s)]_vars

\* C35: the allocation a take returns is a live allocation of the allocator it
\* is returned with at the moment the take returns, whether the message was
\* shared or copied, and also when the take released the row.
C35_ReturnedIsLive ==
  [][\A s \in Subs :
       (pc[s] = "t_next" /\ pc'[s] = "idle" /\ ret'[s].kind = "msg")
         => Live(alloc', ret'[s].alloc, ret'[s].off)]_vars

\* C36: the queue deallocates the allocations of every message exactly once: no
\* deallocation ever hits an allocation that is not live, and when a publish
\* has overwritten a row, the publisher's allocation and every copy of the
\* message the row held are live no longer.
C36_ReleasedOnce ==
  [][/\ frees' = 0
     /\ \A p \in Pubs :
          (pc[p] = "p_unlock" /\ pc'[p] = "idle")
            => \A h \in loc[p].prev : ~Live(alloc', h.id, h.off)]_vars

\* C37: with one publisher and calls that do not overlap, the message a take
\* returns is one the subscriber has not taken before and is newer than every
\* message it has taken.
C37_TakesInPublishOrder ==
  [][\A s \in Subs :
       (pc[s] = "t_next" /\ pc'[s] = "idle" /\ ret'[s].kind = "msg")
         => /\ ret'[s].m = row[loc[s].i].m
            /\ s \notin row[loc[s].i].taken
            /\ \A j \in Rows : s \in row[j].taken => row[j].m < ret'[s].m]_vars

\* A subscriber has taken several messages, the last of them from a row that
\* had held an earlier message.
C37_Witness ==
  \E s \in Subs :
    /\ pc[s] = "idle" /\ ret[s].kind = "msg"
    /\ Len(got[s]) > 1
    /\ ret[s].m > hdr.len

\* C38: a registration that starts after the topic's queue was unmapped and
\* unlinked, in a process that had it open, works on a fresh queue: it does not
\* go through the node of the destroyed queue, and it leaves a linked file with
\* index 0 and len = its depth, before it counts itself in.
C38_FreshAfterDestroy ==
  [][\A e \in Endpoints :
       (pc[e] = "r_lock" /\ pc'[e] # "r_lock" /\ file.unlinked /\ mq_list[ProcOf(e)] # "none")
         => /\ pc'[e] = "r_count"
            /\ mq_list'[ProcOf(e)] = "mapped"
            /\ ~file'.unlinked /\ file'.exists
            /\ hdr'.index = 0 /\ hdr'.len = data[e].depth
            /\ hdr'.pub_count + hdr'.sub_count = 0]_vars

\* C39: a registration on an existing queue that enlarges len or appends a
\* domain column leaves the rows as they were: for every row i below the old
\* len and every column c the queue had, interest_count[i], availability[i]
\* and entry[c][i], addressed with the new len, hold what they held, addressed
\* with the old len, before the registration.
C39_GrowthKeepsRows ==
  [][\A e \in Endpoints :
       (/\ pc[e] \in {"r_lock", "r_map"} /\ pc'[e] = "r_count"
        /\ ~(~loc[e].found /\ loc[e].st_size = 0)
        /\ hdr'.len > hdr.len \/ hdr'.num_domains > hdr.num_domains)
         => \A i \in 0..(hdr.len - 1) :
              /\ CellAt(mem', i).w0 = CellAt(mem, i).w0
              /\ CellAt(mem', i).w1 = CellAt(mem, i).w1
              /\ \A c \in 0..(hdr.num_domains - 1) :
                   CellAt(mem', hdr'.len + c * hdr'.len + i)
                     = CellAt(mem, hdr.len + c * hdr.len + i)]_vars

====
